---- MODULE Spec2Model ----
(***************************************************************************)
(* A model of the Corpus container of text-miner (src/lib/corpus.js).      *)
(*                                                                         *)
(* JavaScript objects live in heaps: Documents in `heap` (a Document's     *)
(* identity is its index), arrays in `arrays` (array 0 is an array of      *)
(* Documents held by the caller, array c is the array allocated by the     *)
(* Corpus held in the caller's variable c), and `documents[c]` names the   *)
(* array the field self.documents of Corpus c points to.  Texts are        *)
(* sequences of one-character strings, so that the string operations are   *)
(* computed character by character.                                        *)
(***************************************************************************)
EXTENDS Integers, Sequences, FiniteSets, TLC

VARIABLES heap, arrays, documents, last

vars == <<heap, arrays, documents, last>>

\* ------------------------------------------------------------------ bounds

\* Most Documents in one array.
MaxDocs == 2

\* The identities the heap has room for.
DocIds == {1, 2}

\* Longest document text drawn for the study of removeWords.
MaxTextLen == 5

\* ----------------------------------------------------------------- strings

Whitespace == {" ", "\t", "\n", "\r"}

IsSpace(ch) == ch \in Whitespace

\* The character class [\s\.] of the pattern built by removeWords.
IsDelimiter(ch) == IsSpace(ch) \/ ch = "."

LowerChar(ch) == IF ch = "A" THEN "a" ELSE IF ch = "B" THEN "b" ELSE ch

UpperChar(ch) == IF ch = "a" THEN "A" ELSE IF ch = "b" THEN "B" ELSE ch

ToLowerCase(s) == [i \in 1..Len(s) |-> LowerChar(s[i])]

ToUpperCase(s) == [i \in 1..Len(s) |-> UpperChar(s[i])]

RECURSIVE DropLeadingSpace(_)
DropLeadingSpace(s) ==
    IF s # <<>> /\ IsSpace(Head(s)) THEN DropLeadingSpace(Tail(s)) ELSE s

RECURSIVE DropTrailingSpace(_)
DropTrailingSpace(s) ==
    IF s # <<>> /\ IsSpace(s[Len(s)])
    THEN DropTrailingSpace(SubSeq(s, 1, Len(s) - 1))
    ELSE s

\* _.trim( text ): leading and trailing whitespace removed.
StrTrim(s) == DropTrailingSpace(DropLeadingSpace(s))

\* replace( /\s\s+/g, ' ' ): every run of two or more whitespace characters
\* becomes one space; a lone whitespace character stays as it is.
RECURSIVE CollapseRuns(_)
CollapseRuns(s) ==
    IF s = <<>> THEN <<>>
    ELSE IF IsSpace(s[1]) /\ Len(s) >= 2 /\ IsSpace(s[2])
         THEN <<" ">> \o CollapseRuns(DropLeadingSpace(s))
         ELSE <<s[1]>> \o CollapseRuns(Tail(s))

\* _.clean( text ) of underscore.string: trim, then collapse whitespace runs.
StrClean(s) == CollapseRuns(StrTrim(s))

\* text.replace( /[\!\?\.,;-]/g, ' ' )
Interpunctuation == {"!", "?", ".", ",", ";", "-"}

ReplaceInterpunctuation(s) ==
    [i \in 1..Len(s) |-> IF s[i] \in Interpunctuation THEN " " ELSE s[i]]

\* text.replace( /\r?\n|\r/g, ' ' ): "\r\n" is one line break.
RECURSIVE ReplaceNewlines(_)
ReplaceNewlines(s) ==
    IF s = <<>> THEN <<>>
    ELSE IF s[1] = "\r" /\ Len(s) >= 2 /\ s[2] = "\n"
         THEN <<" ">> \o ReplaceNewlines(SubSeq(s, 3, Len(s)))
    ELSE IF s[1] \in {"\n", "\r"}
         THEN <<" ">> \o ReplaceNewlines(Tail(s))
    ELSE <<s[1]>> \o ReplaceNewlines(Tail(s))

Digits == {"0", "1", "2", "3", "4", "5", "6", "7", "8", "9"}

IsNotDigit(ch) == ch \notin Digits

\* text.replace( /\d/g, '' )
DeleteDigits(s) == SelectSeq(s, IsNotDigit)

\* The Unicode replacement character U+FFFD, written as one character here.
ReplacementChar == "U+FFFD"

IsNotReplacementChar(ch) == ch # ReplacementChar

\* text.replace( /\uFFFD/g, '' )
DeleteInvalid(s) == SelectSeq(s, IsNotReplacementChar)

\* porterStemmer( text ) and lancasterStemmer( text ): both packages lower-case
\* their input first, and leave an input shorter than three characters (Porter)
\* or without a rule for its ending (Lancaster) at that.  Texts given to the
\* stemmers in this model are at most two characters long.
PorterStemmer(s) == ToLowerCase(s)

LancasterStemmer(s) == ToLowerCase(s)

\* ------------------------------------------------- the pattern of removeWords

SameChar(x, y, ci) == IF ci THEN LowerChar(x) = LowerChar(y) ELSE x = y

\* The word w stands in s at position q (1-based).
WordAt(s, w, ci, q) ==
    /\ q + Len(w) - 1 <= Len(s)
    /\ \A j \in 1..Len(w) : SameChar(s[q + j - 1], w[j], ci)

\* Length of the run of delimiters of s that starts at position p.
RECURSIVE DelimiterRun(_, _)
DelimiterRun(s, p) ==
    IF p <= Len(s) /\ IsDelimiter(s[p]) THEN 1 + DelimiterRun(s, p + 1) ELSE 0

\* new RegExp( `[\\s\\.]+${word}[\\s\\.]` ) tried at position p: the numbers k
\* of leading delimiters with which the pattern matches there.
MatchLeads(s, w, ci, p) ==
    { k \in 1..DelimiterRun(s, p) :
        /\ WordAt(s, w, ci, p + k)
        /\ p + k + Len(w) <= Len(s)
        /\ IsDelimiter(s[p + k + Len(w)]) }

MaxOf(S) == CHOOSE x \in S : \A y \in S : y <= x

\* The position after the match that starts at p, 0 when there is none.  The
\* quantifier + is greedy: the longest run of leading delimiters wins.
MatchEnd(s, w, ci, p) ==
    IF MatchLeads(s, w, ci, p) = {} THEN 0
    ELSE p + MaxOf(MatchLeads(s, w, ci, p)) + Len(w) + 1

\* text.replace( myRegExp, '' ) with the flag g, from position p on: the
\* leftmost match is deleted whole, delimiters included, and the search goes
\* on after it.
RECURSIVE DeleteMatchesFrom(_, _, _, _)
DeleteMatchesFrom(s, w, ci, p) ==
    IF p > Len(s) THEN <<>>
    ELSE IF MatchEnd(s, w, ci, p) > 0
         THEN DeleteMatchesFrom(s, w, ci, MatchEnd(s, w, ci, p))
         ELSE <<s[p]>> \o DeleteMatchesFrom(s, w, ci, p + 1)

DeleteMatches(s, w, ci) == DeleteMatchesFrom(s, w, ci, 1)

\* The inner loop of removeWords over one document text: word after word.
RECURSIVE RemoveWordsFromText(_, _, _, _)
RemoveWordsFromText(s, words, ci, i) ==
    IF i < Len(words)
    THEN RemoveWordsFromText(DeleteMatches(s, words[i + 1], ci), words, ci, i + 1)
    ELSE s

\* -------------------------------------------------------------- JS values

\* An argument of a call is a tagged value.  A Document is named by its place
\* in the heap, an array of Documents by its place in `arrays`.
VUndefined == [type |-> "undefined"]

VString(t) == [type |-> "string", text |-> t]

VStringArray(ts) == [type |-> "stringArray", texts |-> ts]

VDoc(d) == [type |-> "document", id |-> d]

VDocArray(a) == [type |-> "array", id |-> a]

\* An array holding a string and a Document: array-like, neither a string
\* array nor a Document array.
VMixedArray == [type |-> "mixedArray"]

\* validate.io-string-primitive
IsString(v) == v.type = "string"

\* validate.io-string-array: an array, not empty, of string primitives.
IsStringArray(v) == v.type = "stringArray" /\ Len(v.texts) > 0

IsDoc(v) == v.type = "document"

\* An array-like value all of whose elements pass isDoc; the loop over an
\* empty array passes none through the test, so an empty array is one.
IsDocArray(v) ==
    \/ v.type = "array"
    \/ v.type = "stringArray" /\ Len(v.texts) = 0

\* The attributes of a Document made from a string: an empty mapping.
EmptyAttributes == "{}"

\* new Doc( text )
NewDoc(t) == [text |-> t, attributes |-> EmptyAttributes]

\* ------------------------------------------------------------------ stores

\* The heaps as one value, for the functions below.
Cur == [heap |-> heap, arrays |-> arrays, documents |-> documents]

\* this.documents
DocsOf(st, c) == st.arrays[st.documents[c]]

\* The getter nDocs: this.documents.length
NDocs(st, c) == Len(DocsOf(st, c))

\* for ( i = 0; i < len; i++ ) arr[ i ] = new Doc( val[ i ] ): the heap after
\* the loop, the new Documents at its end in the order of the strings.
RECURSIVE WrapStrings(_, _, _)
WrapStrings(h, texts, i) ==
    IF i < Len(texts)
    THEN WrapStrings(Append(h, NewDoc(texts[i + 1])), texts, i + 1)
    ELSE h

\* The Document ids WrapStrings gives the n strings wrapped on top of heap h.
NewIds(h, n) == [i \in 1..n |-> Len(h) + i]

\* The Documents an array argument of addDocs stands for.
ElementsOf(st, v) == IF v.type = "array" THEN st.arrays[v.id] ELSE <<>>

\* ------------------------------------------------------------ construction

\* init throws the TypeError of its last branch.
InitThrows(v) ==
    ~(v.type = "undefined" \/ IsString(v) \/ IsStringArray(v) \/ IsDoc(v) \/ IsDocArray(v))

\* Corpus.init( val ) for the Corpus held in c.  A string or a string array is
\* wrapped into new Documents in a new array; a Document is put into a new
\* array; an array of Documents becomes self.documents as it is.  Array c is
\* emptied when c does not use it, so that equal heaps are equal states.
InitCorpus(st, c, v) ==
    IF v.type = "undefined"
    THEN [st EXCEPT !.arrays[c] = <<>>, !.documents[c] = c]
    ELSE IF IsString(v)
    THEN [heap |-> Append(st.heap, NewDoc(v.text)),
          arrays |-> [st.arrays EXCEPT ![c] = <<Len(st.heap) + 1>>],
          documents |-> [st.documents EXCEPT ![c] = c]]
    ELSE IF IsStringArray(v)
    THEN [heap |-> WrapStrings(st.heap, v.texts, 0),
          arrays |-> [st.arrays EXCEPT ![c] = NewIds(st.heap, Len(v.texts))],
          documents |-> [st.documents EXCEPT ![c] = c]]
    ELSE IF IsDoc(v)
    THEN [st EXCEPT !.arrays[c] = <<v.id>>, !.documents[c] = c]
    ELSE IF v.type = "array"
    THEN [st EXCEPT !.arrays[c] = <<>>, !.documents[c] = v.id]
    ELSE [st EXCEPT !.arrays[c] = <<>>, !.documents[c] = c]

\* -------------------------------------------------------------- mutation

AddDocThrows(v) == ~(IsString(v) \/ IsDoc(v))

\* A slip: the document is put first (unshift for push).
AddDocStore_Unshift(st, c, v) ==
    IF IsString(v)
    THEN [st EXCEPT !.heap = Append(@, NewDoc(v.text)),
                    !.arrays[st.documents[c]] = <<Len(st.heap) + 1>> \o @]
    ELSE [st EXCEPT !.arrays[st.documents[c]] = <<v.id>> \o @]

\* addDoc( doc ): self.documents.push, on the array self.documents points to.
AddDocStore(st, c, v) ==
    IF IsString(v)
    THEN [st EXCEPT !.heap = Append(@, NewDoc(v.text)),
                    !.arrays[st.documents[c]] = Append(@, Len(st.heap) + 1)]
    ELSE [st EXCEPT !.arrays[st.documents[c]] = Append(@, v.id)]

AddDocsThrows(v) == ~(IsStringArray(v) \/ IsDocArray(v))

\* A slip: the documents are pushed onto the array self.documents points to,
\* where concat makes a new array.
AddDocsStore_InPlace(st, c, v) ==
    IF IsStringArray(v)
    THEN [st EXCEPT !.heap = WrapStrings(st.heap, v.texts, 0),
                    !.arrays[st.documents[c]] = @ \o NewIds(st.heap, Len(v.texts))]
    ELSE [st EXCEPT !.arrays[st.documents[c]] = @ \o ElementsOf(st, v)]

\* addDocs( docs ): self.documents = self.documents.concat( ... ), a new array
\* (array c) that self.documents points to from now on.
AddDocsStore(st, c, v) ==
    IF IsStringArray(v)
    THEN [heap |-> WrapStrings(st.heap, v.texts, 0),
          arrays |-> [st.arrays EXCEPT
                        ![c] = DocsOf(st, c) \o NewIds(st.heap, Len(v.texts))],
          documents |-> [st.documents EXCEPT ![c] = c]]
    ELSE [st EXCEPT !.arrays[c] = DocsOf(st, c) \o ElementsOf(st, v),
                    !.documents[c] = c]

\* An array of attribute mappings.
VObjectArray(items) == [type |-> "objectArray", items |-> items]

\* validate.io-object-array: an array, not empty, of objects.
IsObjectArray(v) == v.type = "objectArray" /\ Len(v.items) > 0

\* The error setAttributes throws for v, "none" when it throws none.
SetAttributesError(st, c, v) ==
    IF ~IsObjectArray(v) THEN "TypeError"
    ELSE IF Len(v.items) # NDocs(st, c) THEN "Error"
    ELSE "none"

\* for ( i = 0; i < len; i++ ) self.documents[ i ].attributes = arr[ i ]
RECURSIVE AssignAttributes(_, _, _, _)
AssignAttributes(st, c, items, i) ==
    IF i < Len(items)
    THEN AssignAttributes(
            [st EXCEPT !.heap[DocsOf(st, c)[i + 1]].attributes = items[i + 1]],
            c, items, i + 1)
    ELSE st

\* ------------------------------------------------------------- callbacks

\* The two texts the callbacks below produce.
TextEven == <<"a">>

TextOdd == <<"A">>

\* Callbacks a caller passes to apply and map, called with the text, the
\* attributes and the index.
UserCallbacks == {"byIndex", "swapCase", "upperIfAttributes"}

UserCallback(fn, text, attrs, i) ==
    IF fn = "byIndex" THEN (IF i % 2 = 0 THEN TextEven ELSE TextOdd)
    ELSE IF fn = "swapCase"
    THEN (IF text = ToLowerCase(text) THEN ToUpperCase(text) ELSE ToLowerCase(text))
    ELSE IF attrs = EmptyAttributes THEN text ELSE ToUpperCase(text)

\* The callbacks the built-in operations pass to apply.
Builtin(fn, text) ==
    IF fn = "trimmer" THEN StrTrim(text)
    ELSE IF fn = "cleaner" THEN StrClean(text)
    ELSE IF fn = "lowerer" THEN ToLowerCase(text)
    ELSE IF fn = "upperer" THEN ToUpperCase(text)
    ELSE IF fn = "stemmerLancaster" THEN LancasterStemmer(text)
    ELSE IF fn = "stemmerPorter" THEN PorterStemmer(text)
    ELSE IF fn = "removeInterpunctuation" THEN ReplaceInterpunctuation(text)
    ELSE IF fn = "removeNewlines" THEN ReplaceNewlines(text)
    ELSE IF fn = "removeDigits" THEN DeleteDigits(text)
    ELSE DeleteInvalid(text)

\* func( doc.text, doc.attributes, i )
Callback(fn, text, attrs, i) ==
    IF fn \in UserCallbacks THEN UserCallback(fn, text, attrs, i) ELSE Builtin(fn, text)

\* Predicates a caller passes to filter.
Predicates == {"evenIndex", "lowerCase", "hasAttributes"}

Truthy(fn, text, attrs, i) ==
    IF fn = "evenIndex" THEN i % 2 = 0
    ELSE IF fn = "lowerCase" THEN text = ToLowerCase(text)
    ELSE attrs # EmptyAttributes

\* Key functions a caller passes to groupBy; the key is the property name the
\* returned value is used as.
KeyFunctions == {"byCase", "byParity", "oddIsProto", "firstIsHasOwnProperty"}

GroupKey(fn, text, attrs, i) ==
    IF fn = "byCase" THEN (IF text = ToLowerCase(text) THEN "lower" ELSE "upper")
    ELSE IF fn = "byParity" THEN (IF i % 2 = 0 THEN "even" ELSE "odd")
    ELSE IF fn = "oddIsProto" THEN (IF i % 2 = 0 THEN "even" ELSE "__proto__")
    ELSE IF i = 0 THEN "hasOwnProperty" ELSE "rest"

\* One invocation of a callback, as the caller sees it.
Call(i, text, attrs, result) ==
    [index |-> i, text |-> text, attributes |-> attrs, result |-> result]

\* ------------------------------------------------------------- pipeline

\* The loop of apply from index i on: this.nDocs is read before every step.
RECURSIVE ApplyLoop(_, _, _, _, _)
ApplyLoop(st, c, fn, i, calls) ==
    IF i < NDocs(st, c)
    THEN LET d == DocsOf(st, c)[i + 1]
             doc == st.heap[d]
             t == Callback(fn, doc.text, doc.attributes, i)
         IN  ApplyLoop([st EXCEPT !.heap[d].text = t], c, fn, i + 1,
                       Append(calls, Call(i, doc.text, doc.attributes, t)))
    ELSE [st |-> st, calls |-> calls]

\* A slip: the Document is added without the new text.
MapStep_TextDropped(st, r, d, t) == AddDocStore(st, r, VDoc(d))

\* doc.text = func( ... ); ret.addDoc( doc ): the Document itself gets the new
\* text and is added to the Corpus in r.
MapStep(st, r, d, t) == AddDocStore([st EXCEPT !.heap[d].text = t], r, VDoc(d))

\* The loop of map from index i on; r holds the Corpus made by new Corpus().
RECURSIVE MapLoop(_, _, _, _, _, _)
MapLoop(st, c, r, fn, i, calls) ==
    IF i < NDocs(st, c)
    THEN LET d == DocsOf(st, c)[i + 1]
             doc == st.heap[d]
             t == Callback(fn, doc.text, doc.attributes, i)
         IN  MapLoop(MapStep(st, r, d, t), c, r, fn, i + 1,
                     Append(calls, Call(i, doc.text, doc.attributes, t)))
    ELSE [st |-> st, calls |-> calls]

\* A slip: the test is inverted.
FilterStep_Inverted(st, r, d, bool) == IF bool THEN st ELSE AddDocStore(st, r, VDoc(d))

\* if ( bool ) ret.addDoc( doc )
FilterStep(st, r, d, bool) == IF bool THEN AddDocStore(st, r, VDoc(d)) ELSE st

\* The loop of filter from index i on.
RECURSIVE FilterLoop(_, _, _, _, _, _)
FilterLoop(st, c, r, fn, i, calls) ==
    IF i < NDocs(st, c)
    THEN LET d == DocsOf(st, c)[i + 1]
             doc == st.heap[d]
             bool == Truthy(fn, doc.text, doc.attributes, i)
         IN  FilterLoop(FilterStep(st, r, d, bool), c, r, fn, i + 1,
                        Append(calls, Call(i, doc.text, doc.attributes, bool)))
    ELSE [st |-> st, calls |-> calls]

\* var corpora = {}: no own property, the prototype Object.prototype.  `own`
\* maps each own property to the Documents of the Corpus it holds, `order`
\* lists the own properties as they were created, and `proto` is the
\* prototype once a Corpus has been assigned to it.
EmptyObject ==
    [own |-> <<>>, order |-> <<>>, proto |-> [isCorpus |-> FALSE, docs |-> <<>>]]

\* corpora.hasOwnProperty resolves to Object.prototype.hasOwnProperty unless
\* an own property of that name hides it.
HasOwnPropertyIsCallable(g) == "hasOwnProperty" \notin DOMAIN g.own

\* corpora[ group ] = new Corpus( doc ): assigning to "__proto__" sets the
\* prototype and creates no property.
AssignGroup(g, key, d) ==
    IF key = "__proto__"
    THEN [g EXCEPT !.proto = [isCorpus |-> TRUE, docs |-> <<d>>]]
    ELSE [g EXCEPT !.own = (key :> <<d>>) @@ @, !.order = Append(@, key)]

\* The loop of groupBy from index i on.  The callback is called first; then
\* corpora.hasOwnProperty( group ) is evaluated, which throws a TypeError when
\* corpora.hasOwnProperty is a Corpus.
RECURSIVE GroupByLoop(_, _, _, _, _, _)
GroupByLoop(st, c, fn, i, calls, g) ==
    IF i < NDocs(st, c)
    THEN LET d == DocsOf(st, c)[i + 1]
             doc == st.heap[d]
             group == GroupKey(fn, doc.text, doc.attributes, i)
             called == Append(calls, Call(i, doc.text, doc.attributes, group))
         IN  IF ~HasOwnPropertyIsCallable(g)
             THEN [groups |-> g, calls |-> called, err |-> "TypeError"]
             ELSE IF group \notin DOMAIN g.own
             THEN GroupByLoop(st, c, fn, i + 1, called, AssignGroup(g, group, d))
             ELSE GroupByLoop(st, c, fn, i + 1, called,
                              [g EXCEPT !.own[group] = Append(@, d)])
    ELSE [groups |-> g, calls |-> calls, err |-> "none"]

\* The outer loop of removeWords from document doc on.
RECURSIVE RemoveWordsLoop(_, _, _, _, _)
RemoveWordsLoop(st, c, words, ci, doc) ==
    IF doc < NDocs(st, c)
    THEN LET d == DocsOf(st, c)[doc + 1]
         IN  RemoveWordsLoop(
                [st EXCEPT !.heap[d].text = RemoveWordsFromText(@, words, ci, 0)],
                c, words, ci, doc + 1)
    ELSE st

\* ---------------------------------------------------------------- calls

\* The caller holds two Corpus objects, in its variables 1 and 2.
CorpusIds == {1, 2}

\* The array of Documents the caller holds.
CallerArray == 0

\* What a call returned.
RetCorpus(c) == [kind |-> "corpus", id |-> c, groups |-> EmptyObject]

RetUndefined == [kind |-> "undefined", id |-> 0, groups |-> EmptyObject]

RetMapping(g) == [kind |-> "mapping", id |-> 0, groups |-> g]

RetThrown == [kind |-> "thrown", id |-> 0, groups |-> EmptyObject]

\* A slip: the return statement is missing.
ReturnThis_Missing(c) == RetUndefined

\* return this / return self
ReturnThis(c) == RetCorpus(c)

\* addDoc and addDocs end without a return statement.
ReturnNothing(c) == RetUndefined

\* The record of a call: the operation, its receiver and argument, what it
\* returned or threw, the callback invocations it made, and the heaps before.
Record(op, c, arg, ret, err, calls) ==
    [op |-> op, self |-> c, arg |-> arg, ret |-> ret, err |-> err,
     calls |-> calls, pre |-> Cur]

Commit(st, rec) ==
    /\ heap' = st.heap
    /\ arrays' = st.arrays
    /\ documents' = st.documents
    /\ last' = rec

\* The new Documents a string or string array argument is wrapped into.
Fresh(v) == IF IsString(v) THEN 1 ELSE IF IsStringArray(v) THEN Len(v.texts) ELSE 0

\* The heap has room for the Documents v is wrapped into.
HasRoom(v) == 1..(Len(heap) + Fresh(v)) \subseteq DocIds

VFunction(fn) == [type |-> "function", name |-> fn]

\* c = new Corpus( v )
Construct(c, v) ==
    /\ HasRoom(v)
    /\ IF InitThrows(v)
       THEN Commit(Cur, Record("Corpus", c, v, RetThrown, "TypeError", <<>>))
       ELSE Commit(InitCorpus(Cur, c, v),
                   Record("Corpus", c, v, RetCorpus(c), "none", <<>>))

\* c.addDoc( v )
AddDoc(c, v) ==
    /\ HasRoom(v)
    /\ NDocs(Cur, c) < MaxDocs
    /\ IF AddDocThrows(v)
       THEN Commit(Cur, Record("addDoc", c, v, RetThrown, "TypeError", <<>>))
       ELSE Commit(AddDocStore(Cur, c, v),
                   Record("addDoc", c, v, ReturnNothing(c), "none", <<>>))

\* c.addDocs( v )
AddDocs(c, v) ==
    /\ HasRoom(v)
    /\ NDocs(Cur, c) + Fresh(v) + Len(ElementsOf(Cur, v)) <= MaxDocs
    /\ IF AddDocsThrows(v)
       THEN Commit(Cur, Record("addDocs", c, v, RetThrown, "TypeError", <<>>))
       ELSE Commit(AddDocsStore(Cur, c, v),
                   Record("addDocs", c, v, ReturnNothing(c), "none", <<>>))

\* c.setAttributes( v )
SetAttributes(c, v) ==
    LET err == SetAttributesError(Cur, c, v)
    IN  IF err # "none"
        THEN Commit(Cur, Record("setAttributes", c, v, RetThrown, err, <<>>))
        ELSE Commit(AssignAttributes(Cur, c, v.items, 0),
                    Record("setAttributes", c, v, ReturnThis(c), "none", <<>>))

\* c.apply( fn )
Apply(c, fn) ==
    LET run == ApplyLoop(Cur, c, fn, 0, <<>>)
    IN  Commit(run.st, Record("apply", c, VFunction(fn), ReturnThis(c), "none", run.calls))

\* r = c.map( fn )
Map(c, r, fn) ==
    LET run == MapLoop(InitCorpus(Cur, r, VUndefined), c, r, fn, 0, <<>>)
    IN  Commit(run.st, Record("map", c, VFunction(fn), RetCorpus(r), "none", run.calls))

\* r = c.filter( fn )
Filter(c, r, fn) ==
    LET run == FilterLoop(InitCorpus(Cur, r, VUndefined), c, r, fn, 0, <<>>)
    IN  Commit(run.st, Record("filter", c, VFunction(fn), RetCorpus(r), "none", run.calls))

\* c.groupBy( fn )
GroupBy(c, fn) ==
    LET run == GroupByLoop(Cur, c, fn, 0, <<>>, EmptyObject)
    IN  Commit(Cur, Record("groupBy", c, VFunction(fn),
                           IF run.err = "none" THEN RetMapping(run.groups) ELSE RetThrown,
                           run.err, run.calls))

\* A built-in operation: this.apply( callback ); return this.
ApplyBuiltin(c, op, fn) ==
    LET run == ApplyLoop(Cur, c, fn, 0, <<>>)
    IN  Commit(run.st, Record(op, c, VUndefined, ReturnThis(c), "none", run.calls))

Trim(c) == ApplyBuiltin(c, "trim", "trimmer")

Clean(c) == ApplyBuiltin(c, "clean", "cleaner")

ToLower(c) == ApplyBuiltin(c, "toLower", "lowerer")

ToUpper(c) == ApplyBuiltin(c, "toUpper", "upperer")

\* c.stem( type ): Lancaster when type is 'Lancaster', Porter otherwise.
Stem(c, type) ==
    LET run == ApplyLoop(Cur, c,
                         IF type = "Lancaster" THEN "stemmerLancaster" ELSE "stemmerPorter",
                         0, <<>>)
    IN  Commit(run.st, Record("stem", c, [type |-> "string", text |-> type],
                              ReturnThis(c), "none", run.calls))

RemoveInterpunctuation(c) == ApplyBuiltin(c, "removeInterpunctuation", "removeInterpunctuation")

RemoveNewlines(c) == ApplyBuiltin(c, "removeNewlines", "removeNewlines")

RemoveDigits(c) == ApplyBuiltin(c, "removeDigits", "removeDigits")

RemoveInvalidCharacters(c) == ApplyBuiltin(c, "removeInvalidCharacters", "removeInvalidCharacters")

\* The words argument: an array of words, or a value that is not array-like.
VWords(ws) == [type |-> "wordArray", items |-> ws]

VNumber == [type |-> "number"]

\* The caseInsensitive argument: absent, a boolean, or another value.
CaseArguments == {"absent", "true", "false", "number"}

RemoveWordsThrows(words, ci) == words.type # "wordArray" \/ ci = "number"

\* c.removeWords( words, ci ): the words are deleted from every document,
\* then this.clean() runs.
RemoveWords(c, words, ci) ==
    IF RemoveWordsThrows(words, ci)
    THEN Commit(Cur, Record("removeWords", c, [words |-> words, ci |-> ci],
                            RetThrown, "TypeError", <<>>))
    ELSE LET run == ApplyLoop(RemoveWordsLoop(Cur, c, words.items, ci = "true", 0),
                              c, "cleaner", 0, <<>>)
         IN  Commit(run.st, Record("removeWords", c, [words |-> words, ci |-> ci],
                                   ReturnThis(c), "none", run.calls))

\* --------------------------------------------------------------- inputs

\* The texts of the strings a caller passes in.
TextsIn == {TextEven, TextOdd}

\* The attribute mappings a caller passes in.
Attributes == {EmptyAttributes, "{k:1}"}

Strings == {VString(t) : t \in TextsIn}

StringArrays == {VStringArray(ts) : ts \in UNION {[1..n -> TextsIn] : n \in 1..MaxDocs}}

\* The Documents the caller can reach: those in the heap.
Docs == {VDoc(d) : d \in 1..Len(heap)}

ObjectArrays ==
    {VObjectArray(items) : items \in UNION {[1..n -> Attributes] : n \in 0..MaxDocs}}

WordLists == {VWords(ws) : ws \in {<< >>, << <<"a">> >>, << <<"a">>, <<"A">> >>}}

\* The Document the caller made as its i-th.
CallerDoc(i) == [text |-> IF i % 2 = 1 THEN TextOdd ELSE TextEven, attributes |-> "{k:1}"]

\* ------------------------------------------------------------ the program

\* The caller has made k Documents and put them into its array, and holds two
\* Corpus objects made by new Corpus().
Start(k) ==
        /\ heap = [i \in 1..k |-> CallerDoc(i)]
        /\ arrays = [a \in {CallerArray} \cup CorpusIds |->
                        IF a = CallerArray THEN [i \in 1..k |-> i] ELSE <<>>]
        /\ documents = [c \in CorpusIds |-> c]
        /\ last = [op |-> "start", self |-> 0, arg |-> VUndefined, ret |-> RetUndefined,
                   err |-> "none", calls |-> <<>>,
                   pre |-> [heap |-> <<>>, arrays |-> <<>>, documents |-> <<>>]]

Init == Start(1)

\* The caller works on the Corpus in its variable 1 and keeps what map and
\* filter return in its variable 2.
Receiver == 1

Result == 2

Next ==
    \/ \E v \in {VUndefined, VMixedArray} \cup Strings \cup StringArrays \cup Docs :
            Construct(Receiver, v)
    \/ \E v \in Strings \cup Docs \cup {VMixedArray} : AddDoc(Receiver, v)
    \/ \E v \in StringArrays \cup {VDocArray(CallerArray), VMixedArray} :
            AddDocs(Receiver, v)
    \/ \E v \in ObjectArrays \cup {VMixedArray} : SetAttributes(Receiver, v)
    \/ \E fn \in UserCallbacks : Apply(Receiver, fn)
    \/ \E fn \in {"swapCase"} : Apply(Result, fn)
    \/ \E fn \in UserCallbacks : Map(Receiver, Result, fn)
    \/ \E fn \in Predicates : Filter(Receiver, Result, fn)
    \/ \E fn \in KeyFunctions : GroupBy(Receiver, fn)
    \/ Trim(Receiver)
    \/ Clean(Receiver)
    \/ ToLower(Receiver)
    \/ ToUpper(Receiver)
    \/ \E type \in {"Lancaster", "Porter"} : Stem(Receiver, type)
    \/ RemoveInterpunctuation(Receiver)
    \/ RemoveNewlines(Receiver)
    \/ RemoveDigits(Receiver)
    \/ RemoveInvalidCharacters(Receiver)
    \/ \E words \in {VWords(<< <<"a">> >>), VNumber}, ci \in CaseArguments :
            RemoveWords(Receiver, words, ci)

Spec == Init /\ [][Next]_vars

\* Two Corpus objects and the caller's array: construction and addition on
\* either Corpus, map and filter from the first into the second.
NextShare ==
    \/ \E c \in CorpusIds :
        \/ \E v \in {VUndefined, VMixedArray, VDocArray(CallerArray)}
                    \cup Strings \cup StringArrays \cup Docs : Construct(c, v)
        \/ \E v \in Strings \cup Docs \cup {VMixedArray} : AddDoc(c, v)
        \/ \E v \in StringArrays \cup {VDocArray(CallerArray), VMixedArray} : AddDocs(c, v)
    \/ \E fn \in {"byIndex"} : Map(Receiver, Result, fn)
    \/ \E fn \in {"evenIndex"} : Filter(Receiver, Result, fn)

InitShare == \E k \in {0, 1} : Start(k)

SpecShare == InitShare /\ [][NextShare]_vars

\* The texts and word lists for the study of removeWords: every text over a
\* small alphabet, and the texts of the documentation's examples.
RWAlphabet == {" ", ".", "a", "A", "b"}

TheCatSat == <<"t", "h", "e", " ", "c", "a", "t", ".", " ", "s", "a", "t">>

ACategoryItem ==
    <<"a", " ", "c", "a", "t", "e", "g", "o", "r", "y", " ", "i", "t", "e", "m">>

TheCatSatPlain == <<"t", "h", "e", " ", "c", "a", "t", " ", "s", "a", "t">>

WordCat == <<"c", "a", "t">>

RWTexts ==
    UNION {[1..n -> RWAlphabet] : n \in 0..MaxTextLen}
        \cup {TheCatSat, ACategoryItem, TheCatSatPlain}

RWWordLists ==
    {VWords(ws) : ws \in {<< <<"a">> >>, << <<"a", "b">> >>, << <<"a">>, <<"b">> >>,
                          << WordCat >>}}

\* The Receiver holds one Document, made from a string.
InitRW ==
    \E t \in RWTexts :
        /\ heap = <<NewDoc(t)>>
        /\ arrays = [a \in {CallerArray} \cup CorpusIds |->
                        IF a = Receiver THEN <<1>> ELSE <<>>]
        /\ documents = [c \in CorpusIds |-> c]
        /\ last = [op |-> "start", self |-> 0, arg |-> VUndefined, ret |-> RetUndefined,
                   err |-> "none", calls |-> <<>>,
                   pre |-> [heap |-> <<>>, arrays |-> <<>>, documents |-> <<>>]]

NextRW ==
    \E words \in RWWordLists, ci \in {"absent", "false", "true"} :
        RemoveWords(Receiver, words, ci)

SpecRW == InitRW /\ [][NextRW]_vars

\* ----------------------------------------------------------- removeWords

\* The call just made was a removeWords that returned.
RemovedWords == last.op = "removeWords" /\ last.err = "none"

WordsGiven == last.arg.words.items

IgnoreCase == last.arg.ci = "true"

\* The places where w occurs in s.
Occurrences(s, w, ci) == {q \in 1..Len(s) : WordAt(s, w, ci, q)}

\* The places where w occurs in s with whitespace or a period immediately on
\* both sides.
BoundedOccurrences(s, w, ci) ==
    {q \in Occurrences(s, w, ci) :
        /\ q > 1 /\ IsDelimiter(s[q - 1])
        /\ q + Len(w) <= Len(s) /\ IsDelimiter(s[q + Len(w)])}

\* The words of s: the maximal runs of characters that are neither whitespace
\* nor a period, in order.
RECURSIVE TokensFrom(_, _, _)
TokensFrom(s, p, cur) ==
    IF p > Len(s) THEN (IF cur = <<>> THEN <<>> ELSE <<cur>>)
    ELSE IF IsDelimiter(s[p])
         THEN (IF cur = <<>> THEN <<>> ELSE <<cur>>) \o TokensFrom(s, p + 1, <<>>)
         ELSE TokensFrom(s, p + 1, Append(cur, s[p]))

Tokens(s) == TokensFrom(s, 1, <<>>)

SameWord(x, y, ci) == IF ci THEN ToLowerCase(x) = ToLowerCase(y) ELSE x = y

Listed(tok, words, ci) == \E k \in 1..Len(words) : SameWord(tok, words[k], ci)

\* The tokens of s that are none of the words, in order.
RECURSIVE Unlisted(_, _, _)
Unlisted(toks, words, ci) ==
    IF toks = <<>> THEN <<>>
    ELSE IF Listed(Head(toks), words, ci) THEN Unlisted(Tail(toks), words, ci)
    ELSE <<Head(toks)>> \o Unlisted(Tail(toks), words, ci)

\* a is b with some elements left out.
RECURSIVE IsSubsequence(_, _)
IsSubsequence(a, b) ==
    IF a = <<>> THEN TRUE
    ELSE IF b = <<>> THEN FALSE
    ELSE IF Head(a) = Head(b) THEN IsSubsequence(Tail(a), Tail(b))
    ELSE IsSubsequence(a, Tail(b))

\* C8: removeWords deletes every occurrence of a listed word that has
\* whitespace or a period on both sides, however many there are and however
\* close together (so as many occurrences of the word are gone from the text
\* as were bounded in it), leaves a text without such an occurrence as clean
\* leaves it, and turns "the cat. sat" into "the sat" and leaves
\* "a category item" alone for the word "cat".
C8_DeletesEveryBoundedOccurrence ==
    RemovedWords =>
        \A i \in 1..NDocs(Cur, last.self) :
            LET d == DocsOf(Cur, last.self)[i]
                before == last.pre.heap[d].text
                after == heap[d].text
            IN  /\ \A k \in 1..Len(WordsGiven) :
                        Cardinality(Occurrences(after, WordsGiven[k], IgnoreCase))
                            <= Cardinality(Occurrences(before, WordsGiven[k], IgnoreCase))
                                - Cardinality(BoundedOccurrences(before, WordsGiven[k], IgnoreCase))
                /\ (\A k \in 1..Len(WordsGiven) :
                        BoundedOccurrences(before, WordsGiven[k], IgnoreCase) = {})
                        => after = StrClean(before)
                /\ (before = TheCatSat /\ WordsGiven = <<WordCat>>)
                        => after = <<"t", "h", "e", " ", "s", "a", "t">>
                /\ (before = ACategoryItem /\ WordsGiven = <<WordCat>>)
                        => after = ACategoryItem

\* C9: every token of the original text that is not a listed word is still a
\* token of the result, unchanged and in the original order.  (Tokens are
\* taken between whitespace and periods, the delimiters of removeWords.)
C9_KeepsOtherTokens ==
    RemovedWords =>
        \A i \in 1..NDocs(Cur, last.self) :
            LET d == DocsOf(Cur, last.self)[i]
            IN  IsSubsequence(
                    Unlisted(Tokens(last.pre.heap[d].text), WordsGiven, IgnoreCase),
                    Tokens(heap[d].text))

\* ------------------------------------------------- construction, addition

\* The call just made was op, and it returned.
Returned(op) == last.op = op /\ last.err = "none"

\* The number of documents the argument of the constructor, of addDoc or of
\* addDocs stands for.
CountOf(v) ==
    IF v.type = "undefined" THEN 0
    ELSE IF v.type = "string" \/ v.type = "document" THEN 1
    ELSE IF v.type = "stringArray" THEN Len(v.texts)
    ELSE Len(last.pre.arrays[v.id])

\* The documents at positions from + 1 .. from + CountOf(v) of docs are those
\* v stands for, in the order given: the Documents themselves, or new
\* Documents with the texts of the strings.
HoldsAt(docs, from, v) ==
    \A k \in 1..CountOf(v) :
        IF v.type = "document" THEN docs[from + k] = v.id
        ELSE IF v.type = "array" THEN docs[from + k] = last.pre.arrays[v.id][k]
        ELSE /\ docs[from + k] > Len(last.pre.heap)
             /\ heap[docs[from + k]].text = (IF v.type = "string" THEN v.text ELSE v.texts[k])
             /\ \A j \in 1..CountOf(v) : docs[from + j] = docs[from + k] => j = k

\* Every Document there was keeps its text and its attributes.
HeapKept == \A d \in 1..Len(last.pre.heap) : heap[d] = last.pre.heap[d]

\* C1: the constructor makes a Corpus of as many documents as its input
\* implies, in the order given, and addDoc and addDocs append: nDocs grows by
\* the number added, the new documents follow the old ones in the order given,
\* and the old ones keep their index, text and attributes.
C1_ConstructThenAppend ==
    /\ Returned("Corpus") =>
            /\ NDocs(Cur, last.self) = CountOf(last.arg)
            /\ HoldsAt(DocsOf(Cur, last.self), 0, last.arg)
            /\ HeapKept
    /\ (Returned("addDoc") \/ Returned("addDocs")) =>
            LET before == DocsOf(last.pre, last.self)
                after == DocsOf(Cur, last.self)
            IN  /\ Len(after) = Len(before) + CountOf(last.arg)
                /\ SubSeq(after, 1, Len(before)) = before
                /\ HoldsAt(after, Len(before), last.arg)
                /\ HeapKept

\* Witness of C1: addDoc has appended a string, as a new Document, to a Corpus
\* holding one document.
C1_Witness ==
    /\ Returned("addDoc")
    /\ last.arg.type = "string"
    /\ NDocs(last.pre, last.self) = 1
    /\ NDocs(Cur, last.self) = 2

C2_SetAttributes ==
    (last.op = "setAttributes" /\ last.arg.type = "objectArray") =>
        LET items == last.arg.items
            before == DocsOf(last.pre, last.self)
        IN  /\ last.err = "none" <=> Len(items) = Len(before)
            /\ last.err = "none" =>
                    /\ \A i \in 1..Len(before) :
                            /\ heap[before[i]].attributes = items[i]
                            /\ heap[before[i]].text = last.pre.heap[before[i]].text
                    /\ arrays = last.pre.arrays
                    /\ documents = last.pre.documents
            /\ Len(items) # Len(before) =>
                    /\ last.err = "Error"
                    /\ heap = last.pre.heap

\* --------------------------------------------------------- return values

MutatingOperators ==
    {"addDoc", "addDocs", "setAttributes", "apply", "trim", "clean", "toLower",
     "toUpper", "stem", "removeInterpunctuation", "removeNewlines", "removeDigits",
     "removeInvalidCharacters", "removeWords"}

\* map and filter return a Corpus that is not the receiver, groupBy a mapping
\* of such.
NewCorpusReturned ==
    /\ (Returned("map") \/ Returned("filter")) =>
            /\ last.ret.kind = "corpus"
            /\ last.ret.id # last.self
            /\ documents[last.ret.id] # documents[last.self]
    /\ Returned("groupBy") => last.ret.kind = "mapping"

\* C3 as claimed: every mutating operator that succeeds returns the Corpus it
\* was called on; map, filter and groupBy return another Corpus, or a mapping.
C3_MutatorsReturnThis ==
    /\ (last.op \in MutatingOperators /\ last.err = "none") => last.ret = RetCorpus(last.self)
    /\ NewCorpusReturned

\* C3 as amended: addDoc and addDocs return nothing (undefined); every other
\* mutating operator that succeeds returns the Corpus it was called on; map,
\* filter and groupBy return another Corpus, or a mapping.
C3_ReturnValues ==
    /\ (last.op \in {"addDoc", "addDocs"} /\ last.err = "none") => last.ret = RetUndefined
    /\ (last.op \in MutatingOperators \ {"addDoc", "addDocs"} /\ last.err = "none") =>
            last.ret = RetCorpus(last.self)
    /\ NewCorpusReturned

\* Witness of C3: setAttributes has given two documents their attributes and
\* returned its Corpus.
C3_Witness ==
    /\ Returned("setAttributes")
    /\ NDocs(Cur, last.self) = 2
    /\ last.ret.kind = "corpus"
    /\ last.ret.id = last.self

\* ---------------------------------------------------------------- groupBy

\* The callback of the call just made.
Fn == last.arg.name

\* The documents the receiver held when the call was made.
Source == DocsOf(last.pre, last.self)

\* The key the callback gives the document at index i (from 0).
KeyAt(i) ==
    GroupKey(Fn, last.pre.heap[Source[i + 1]].text,
             last.pre.heap[Source[i + 1]].attributes, i)

\* The documents at the indexes in S, in the receiver's order, from index i on.
RECURSIVE Pick(_, _)
Pick(S, i) ==
    IF i >= Len(Source) THEN <<>>
    ELSE IF i \in S THEN <<Source[i + 1]>> \o Pick(S, i + 1)
    ELSE Pick(S, i + 1)

\* C4: groupBy returns a mapping in which every document of the receiver is
\* in the group of its key and in no other, the documents of a group are in
\* the receiver's order, and the receiver is as it was.
C4_GroupByPartitions ==
    last.op = "groupBy" =>
        /\ last.err = "none"
        /\ \A i \in 0..(Len(Source) - 1) : KeyAt(i) \in DOMAIN last.ret.groups.own
        /\ \A k \in DOMAIN last.ret.groups.own :
                last.ret.groups.own[k] = Pick({i \in 0..(Len(Source) - 1) : KeyAt(i) = k}, 0)
        /\ Cur = last.pre

\* ----------------------------------------------------------------- filter

\* The indexes (from 0) of the documents the predicate holds for.
Kept ==
    {i \in 0..(Len(Source) - 1) :
        Truthy(Fn, last.pre.heap[Source[i + 1]].text,
               last.pre.heap[Source[i + 1]].attributes, i)}

\* C5: filter returns another Corpus that holds exactly the documents the
\* predicate holds for, in the receiver's order, and changes neither the
\* receiver nor any document.
C5_FilterSelects ==
    Returned("filter") =>
        LET out == DocsOf(Cur, last.ret.id)
        IN  /\ last.ret.kind = "corpus" /\ last.ret.id # last.self
            /\ documents[last.ret.id] # documents[last.self]
            /\ Len(out) = Cardinality(Kept)
            /\ Len(out) <= Len(Source)
            /\ \A i \in Kept : out[Cardinality({j \in Kept : j < i}) + 1] = Source[i + 1]
            /\ DocsOf(Cur, last.self) = Source
            /\ heap = last.pre.heap

\* Witness of C5: filter has kept one of two documents and dropped the other.
C5_Witness ==
    /\ Returned("filter")
    /\ Len(Source) = 2
    /\ NDocs(Cur, last.ret.id) = 1

\* -------------------------------------------------------------------- map

\* The indexes before i at which the document of index i stands as well.
Earlier(i) == {j \in 0..(i - 1) : Source[j + 1] = Source[i + 1]}

\* The text the callback of apply or map returns at index i: it is given the
\* text the document has then, which an earlier call has set when the document
\* stands at an earlier index too.
RECURSIVE TextAfter(_)
TextAfter(i) ==
    Callback(Fn,
             IF Earlier(i) = {} THEN last.pre.heap[Source[i + 1]].text
             ELSE TextAfter(MaxOf(Earlier(i))),
             last.pre.heap[Source[i + 1]].attributes, i)

\* The last index at which the document of index i stands.
LastIndexOf(i) == MaxOf({j \in 0..(Len(Source) - 1) : Source[j + 1] = Source[i + 1]})

\* The Documents are the same objects in the same order, in another array;
\* the receiver's array, the attributes and the other Documents are as before.
MapKeepsDocuments ==
    /\ last.ret.kind = "corpus" /\ last.ret.id # last.self
    /\ documents[last.ret.id] # documents[last.self]
    /\ DocsOf(Cur, last.ret.id) = Source
    /\ DocsOf(Cur, last.self) = Source
    /\ Len(heap) = Len(last.pre.heap)
    /\ \A d \in 1..Len(heap) :
            /\ heap[d].attributes = last.pre.heap[d].attributes
            /\ (\A i \in 1..Len(Source) : Source[i] # d) => heap[d] = last.pre.heap[d]

\* C6 as claimed: the Corpus map returns holds the receiver's Documents, the
\* i-th with the text fn( old text, attributes, i ).
C6_MapOfOldTexts ==
    Returned("map") =>
        /\ MapKeepsDocuments
        /\ \A i \in 0..(Len(Source) - 1) :
                heap[Source[i + 1]].text =
                    Callback(Fn, last.pre.heap[Source[i + 1]].text,
                             last.pre.heap[Source[i + 1]].attributes, i)

\* C6 as amended: the Corpus map returns holds the receiver's Documents, the
\* same objects in the same order; a Document's text is what fn returned at
\* the last index the Document stands at, where fn was given the text the
\* Document had then (for a Document that stands at one index only, the text
\* is fn( old text, attributes, i )).  apply writes the same texts, and they
\* are read through every Corpus that holds the Document.
C6_MapSharesDocuments ==
    /\ Returned("map") => MapKeepsDocuments
    /\ (Returned("map") \/ Returned("apply")) =>
            /\ \A i \in 0..(Len(Source) - 1) :
                    /\ heap[Source[i + 1]].text = TextAfter(LastIndexOf(i))
                    /\ Earlier(i) = {} /\ LastIndexOf(i) = i =>
                            heap[Source[i + 1]].text =
                                Callback(Fn, last.pre.heap[Source[i + 1]].text,
                                         last.pre.heap[Source[i + 1]].attributes, i)
            /\ \A o \in CorpusIds : \A j \in 1..NDocs(Cur, o) :
                    \A i \in 0..(Len(Source) - 1) :
                        DocsOf(Cur, o)[j] = Source[i + 1] =>
                            heap[DocsOf(Cur, o)[j]].text = TextAfter(LastIndexOf(i))

\* Witness of C6: after a map, apply on the Corpus map returned has changed
\* the text of a Document that the receiver of the map holds too.
C6_Witness ==
    /\ Returned("apply")
    /\ last.self = Result
    /\ NDocs(Cur, Result) >= 1
    /\ DocsOf(Cur, Result) = DocsOf(Cur, Receiver)
    /\ documents[Result] # documents[Receiver]
    /\ heap[DocsOf(Cur, Receiver)[1]].text # last.pre.heap[DocsOf(Cur, Receiver)[1]].text

\* --------------------------------------------------------- the callbacks

\* The text the callback is given at index i.
TextBefore(i) ==
    IF last.op \in {"apply", "map"} /\ Earlier(i) # {}
    THEN TextAfter(MaxOf(Earlier(i)))
    ELSE last.pre.heap[Source[i + 1]].text

\* C7: apply, map, filter and groupBy call the callback once for every
\* document the Corpus holds, with the indexes 0, 1, ... in ascending order,
\* each time with the text and the attributes of the document at that index,
\* and then return.
C7_OneCallPerDocument ==
    last.op \in {"apply", "map", "filter", "groupBy"} =>
        /\ last.err = "none"
        /\ Len(last.calls) = Len(Source)
        /\ \A k \in 1..Len(last.calls) :
                /\ last.calls[k].index = k - 1
                /\ k <= Len(Source) =>
                        /\ last.calls[k].text = TextBefore(k - 1)
                        /\ last.calls[k].attributes = last.pre.heap[Source[k]].attributes

====
